---------------------------- MODULE Spec2Model ----------------------------
(***************************************************************************)
(* A model of the BookBot maintenance scripts under server/scripts:       *)
(*                                                                         *)
(*   download_new_books.py       clean_text, download_book, main          *)
(*   remove_gutenberg_header.py  process_file                             *)
(*   generate_svg_covers.py      title_to_display_name, extract_author,   *)
(*                               main                                      *)
(*                                                                         *)
(* A Python str is a sequence of one-character strings.  Offsets are the  *)
(* 0-based offsets of Python; -1 stands for str.find's "not found" and    *)
(* for a regular-expression search that returned None.                    *)
(***************************************************************************)
EXTENDS Integers, Sequences, FiniteSets, TLC

VARIABLES
    prog,            \* the function or script the run executes
    pc,              \* the position in it
    text,            \* clean_text's argument / the text of the file read
    start_pos,       \* clean_text
    end_pos,         \* clean_text
    clean,           \* clean_text
    prev,            \* the value of clean before the last whitespace clean-up
    passes,          \* how often the whitespace clean-up has been applied
    content,         \* process_file
    start_match,     \* process_file: start_match.end(), -1 for None
    footer_start,    \* process_file: -1 for None
    file,            \* process_file: what was written back, <<"?">> before
    filename,        \* title_to_display_name's argument
    display_title,   \* what title_to_display_name returned, <<"?">> before
    first_lines,     \* extract_author
    author,          \* what extract_author returned, <<"?">> before
    book,            \* download main: the loop's place in books_to_download
    book_data,       \* download main: 0 for None, else the book's record
    downloaded_books,\* download main
    saved,           \* the books whose file download_book has opened to write
    attempted,       \* history: the books download_book was called for
    raised,          \* history: the books whose download raised
    txt_dir,         \* the names of the text files in txt_dir
    covers0,         \* the cover files at the start of generate_svg_covers
    covers,          \* the cover files: name |-> "old" or "new" content
    txt_files,       \* covers main
    existing_covers, \* covers main
    created_count,   \* covers main
    idx,             \* covers main: the loop's place in txt_files
    written          \* history: the text files create_svg_cover wrote for

varsClean  == <<text, start_pos, end_pos, clean, prev, passes>>
varsHeader == <<content, start_match, footer_start, file>>
varsMeta   == <<filename, display_title, first_lines, author>>
varsBooks  == <<book, book_data, downloaded_books, saved, attempted, raised>>
varsCovers == <<txt_dir, covers0, covers, txt_files, existing_covers, created_count,
                idx, written>>
varsBatch  == <<varsBooks, varsCovers>>
vars == <<prog, pc, varsClean, varsHeader, varsMeta, varsBatch>>

----------------------------------------------------------------------------
(* Bounds of the checked instances.                                        *)

MaxLines == 3

MaxChars == 6

MaxStem == 5

MaxLeadingLines == 3

----------------------------------------------------------------------------
(* Python str primitives.                                                  *)

At(s, i) == IF i >= 0 /\ i < Len(s) THEN s[i + 1] ELSE ""

Min2(a, b) == IF a <= b THEN a ELSE b

Max2(a, b) == IF a >= b THEN a ELSE b

MinOf(S) == CHOOSE x \in S : \A y \in S : x <= y

MaxOf(S) == CHOOSE x \in S : \A y \in S : x >= y

\* s[a:b], with Python's treatment of negative and out-of-range offsets
Slice(s, a, b) ==
    LET n  == Len(s)
        lo == IF a < 0 THEN Max2(n + a, 0) ELSE Min2(a, n)
        hi == IF b < 0 THEN Max2(n + b, 0) ELSE Min2(b, n)
    IN  IF lo >= hi THEN <<>> ELSE SubSeq(s, lo + 1, hi)

\* s[i:i+len(sub)] == sub
MatchAt(s, i, sub) ==
    /\ i >= 0
    /\ i + Len(sub) <= Len(s)
    /\ \A k \in 1..Len(sub) : s[i + k] = sub[k]

\* s.find(sub, from)
Find(s, sub, from) ==
    LET hits == {i \in from..(Len(s) - Len(sub)) : MatchAt(s, i, sub)}
    IN  IF hits = {} THEN -1 ELSE MinOf(hits)

\* the characters of the model's alphabet that \s and str.strip() take as
\* whitespace
IsSpace(c) == c \in {" ", "\t", "\n", "\r"}

IsDigit(c) == c \in {"0", "1", "2", "3", "4", "5", "6", "7", "8", "9"}

\* the length of the longest run of whitespace that starts at offset i:
\* the run ends at the first offset that holds no whitespace (At gives ""
\* past the end of s)
WsRun(s, i) ==
    IF i < 0 \/ i >= Len(s) THEN 0
    ELSE (CHOOSE j \in i..Len(s) :
             /\ ~IsSpace(At(s, j))
             /\ \A k \in i..(j - 1) : IsSpace(At(s, k))) - i

\* the length of the longest run of whitespace that ends at offset i
WsRunBack(s, i) ==
    IF i < 0 \/ i >= Len(s) THEN 0
    ELSE i - (CHOOSE j \in (-1)..i :
                 /\ ~IsSpace(At(s, j))
                 /\ \A k \in (j + 1)..i : IsSpace(At(s, k)))

\* the length of the longest run of line breaks that starts at offset i
NlRun(s, i) ==
    IF i < 0 \/ i >= Len(s) THEN 0
    ELSE (CHOOSE j \in i..Len(s) :
             /\ At(s, j) # "\n"
             /\ \A k \in i..(j - 1) : At(s, k) = "\n") - i

\* the length of the longest run of digits that starts at offset i
DigitRun(s, i) ==
    IF i < 0 \/ i >= Len(s) THEN 0
    ELSE (CHOOSE j \in i..Len(s) :
             /\ ~IsDigit(At(s, j))
             /\ \A k \in i..(j - 1) : IsDigit(At(s, k))) - i

\* s.strip()
Strip(s) ==
    LET a == WsRun(s, 0)
    IN  IF a = Len(s) THEN <<>>
        ELSE SubSeq(s, a + 1, Len(s) - WsRunBack(s, Len(s) - 1))

----------------------------------------------------------------------------
(* download_new_books.py: clean_text                                       *)

StartMarker1 ==
    <<"*","*","*"," ","S","T","A","R","T"," ","O","F"," ","T","H","E"," ","P","R","O","J","E","C","T"," ","G","U","T","E","N","B","E","R","G"," ","E","B","O","O","K">>

StartMarker2 ==
    <<"*","*","*"," ","S","T","A","R","T"," ","O","F"," ","T","H","I","S"," ","P","R","O","J","E","C","T"," ","G","U","T","E","N","B","E","R","G"," ","E","B","O","O","K">>

StartMarker3 ==
    <<"*","*","*","S","T","A","R","T"," ","O","F"," ","T","H","E"," ","P","R","O","J","E","C","T"," ","G","U","T","E","N","B","E","R","G"," ","E","B","O","O","K">>

EndMarker1 ==
    <<"*","*","*"," ","E","N","D"," ","O","F"," ","T","H","E"," ","P","R","O","J","E","C","T"," ","G","U","T","E","N","B","E","R","G"," ","E","B","O","O","K">>

EndMarker2 ==
    <<"*","*","*"," ","E","N","D"," ","O","F"," ","T","H","I","S"," ","P","R","O","J","E","C","T"," ","G","U","T","E","N","B","E","R","G"," ","E","B","O","O","K">>

EndMarker3 ==
    <<"*","*","*","E","N","D"," ","O","F"," ","T","H","E"," ","P","R","O","J","E","C","T"," ","G","U","T","E","N","B","E","R","G"," ","E","B","O","O","K">>

start_markers == <<StartMarker1, StartMarker2, StartMarker3>>

end_markers == <<EndMarker1, EndMarker2, EndMarker3>>

\* "for marker in start_markers", from the k-th marker on; start_pos is 0
\* when the loop ends without a break
RECURSIVE FindStartFrom(_, _)
FindStartFrom(t, k) ==
    IF k > Len(start_markers) THEN 0
    ELSE LET pos == Find(t, start_markers[k], 0)
         IN  IF pos # -1
             THEN LET nl == Find(t, <<"\n">>, pos)
                  IN  IF nl # -1 THEN nl + 1 ELSE nl
             ELSE FindStartFrom(t, k + 1)

FindStart(t) == FindStartFrom(t, 1)

\* "for marker in end_markers", from the k-th marker on; end_pos is len(text)
\* when the loop ends without a break
RECURSIVE FindEndFrom(_, _)
FindEndFrom(t, k) ==
    IF k > Len(end_markers) THEN Len(t)
    ELSE LET pos == Find(t, end_markers[k], 0)
         IN  IF pos # -1 THEN pos ELSE FindEndFrom(t, k + 1)

\* a variant that takes the marker that occurs first in the text
FindEndEarliest(t) ==
    LET hits == {Find(t, end_markers[k], 0) : k \in 1..Len(end_markers)} \ {-1}
    IN  IF hits = {} THEN Len(t) ELSE MinOf(hits)

FindEnd(t) == FindEndFrom(t, 1)

\* a variant without the strip()
ExtractUnstripped(t, s, e) == Slice(t, s, e)

\* text[start_pos:end_pos].strip()
Extract(t, s, e) == Strip(Slice(t, s, e))

\* a variant whose pattern is \n\n\n: three line breaks and no more
ThreeBreaksEnd(s, i) ==
    IF At(s, i) = "\n" /\ At(s, i + 1) = "\n" /\ At(s, i + 2) = "\n"
    THEN i + 3 ELSE -1

\* The end of the match of \n\s*\n\s*\n+ that starts at offset i, -1 when
\* there is none.  The engine is greedy and backtracks: it settles on the
\* longest first \s* after which the rest can still match, then on the
\* longest second \s*, then on the longest \n+.
BlankMatchEnd(s, i) ==
    IF At(s, i) # "\n" THEN -1
    ELSE LET A == {a \in 0..WsRun(s, i + 1) :
                     /\ At(s, i + 1 + a) = "\n"
                     /\ \E b \in 0..WsRun(s, i + 2 + a) :
                           At(s, i + 2 + a + b) = "\n"}
         IN  IF A = {} THEN -1
             ELSE LET a == MaxOf(A)
                      b == MaxOf({c \in 0..WsRun(s, i + 2 + a) :
                                    At(s, i + 2 + a + c) = "\n"})
                  IN  i + 2 + a + b + NlRun(s, i + 2 + a + b)

\* re.sub(r'\n\s*\n\s*\n+', '\n\n', s), scanning from offset pos on: the
\* leftmost match is replaced and the scan resumes at its end
RECURSIVE SubBlankFrom(_, _)
SubBlankFrom(s, pos) ==
    LET starts == {i \in pos..(Len(s) - 1) : BlankMatchEnd(s, i) # -1}
    IN  IF starts = {} THEN Slice(s, pos, Len(s))
        ELSE LET i == MinOf(starts)
             IN  Slice(s, pos, i) \o <<"\n", "\n">>
                   \o SubBlankFrom(s, BlankMatchEnd(s, i))

SubBlankLines(s) == SubBlankFrom(s, 0)

\* a character of the class [ \t]
IsHs(c) == c \in {" ", "\t"}

IsKept(c) == c # ""

\* re.sub(r'[ \t]+', ' ', s): the matches are the maximal runs of spaces
\* and tabs; the first character of a run becomes the space that replaces
\* the run, the rest of the run goes, every other character stays
SubSpaces(s) ==
    LET out == [i \in 1..Len(s) |->
                  IF ~IsHs(s[i]) THEN s[i]
                  ELSE IF i > 1 /\ IsHs(s[i - 1]) THEN "" ELSE " "]
    IN  SelectSeq(out, IsKept)

\* lines 46-48: the two rewrite passes
CleanWhitespace(s) == SubSpaces(SubBlankLines(s))

----------------------------------------------------------------------------
(* remove_gutenberg_header.py: process_file                                *)

LitStars == <<"*","*","*">>

LitStartOf ==
    <<"S","T","A","R","T"," ","O","F"," ","T","H","E"," ","P","R","O","J","E","C","T"," ","G","U","T","E","N","B","E","R","G">>

LitEndOf ==
    <<"E","N","D"," ","O","F"," ","T","H","E"," ","P","R","O","J","E","C","T"," ","G","U","T","E","N","B","E","R","G">>

LitEndOfSp == <<"E","n","d"," ","o","f"," ">>

LitTheSp == <<"t","h","e"," ">>

LitPG == <<"P","r","o","j","e","c","t"," ","G","u","t","e","n","b","e","r","g">>

LitSection == <<"S","e","c","t","i","o","n"," ">>

LitInfo == <<"I","n","f","o","r","m","a","t","i","o","n"," ","a","b","o","u","t">>

LitFoundation ==
    <<"T","h","e"," ","P","r","o","j","e","c","t"," ","G","u","t","e","n","b","e","r","g"," ","L","i","t","e","r","a","r","y"," ","A","r","c","h","i","v","e"," ","F","o","u","n","d","a","t","i","o","n">>

UpperLetters ==
    <<"A","B","C","D","E","F","G","H","I","J","K","L","M","N","O","P","Q","R","S","T","U","V","W","X","Y","Z">>

LowerLetters ==
    <<"a","b","c","d","e","f","g","h","i","j","k","l","m","n","o","p","q","r","s","t","u","v","w","x","y","z">>

ToLower == [c \in {UpperLetters[k] : k \in 1..26} |->
              LowerLetters[CHOOSE k \in 1..26 : UpperLetters[k] = c]]

ToUpper == [c \in {LowerLetters[k] : k \in 1..26} |->
              UpperLetters[CHOOSE k \in 1..26 : LowerLetters[k] = c]]

\* str.lower() of one character
Lower(c) == IF c \in DOMAIN ToLower THEN ToLower[c] ELSE c

\* str.upper() of one character
Upper(c) == IF c \in DOMAIN ToUpper THEN ToUpper[c] ELSE c

\* a literal of a pattern compiled with re.IGNORECASE, at offset i
MatchIC(s, i, lit) ==
    /\ i >= 0
    /\ i + Len(lit) <= Len(s)
    /\ \A k \in 1..Len(lit) : Lower(s[i + k]) = Lower(lit[k])

\* where ^ matches under re.MULTILINE
IsLineStart(s, i) == i = 0 \/ At(s, i - 1) = "\n"

\* where .*$ ends under re.MULTILINE: "." takes everything but a newline
LineEnd(s, i) ==
    LET nl == Find(s, <<"\n">>, i) IN IF nl = -1 THEN Len(s) ELSE nl

\* ^\*\*\*\s*START OF THE PROJECT GUTENBERG at offset i: the offset after
\* GUTENBERG, -1 when it does not match there
StartPatternAt(s, i) ==
    IF /\ IsLineStart(s, i)
       /\ MatchAt(s, i, LitStars)
       /\ MatchIC(s, i + 3 + WsRun(s, i + 3), LitStartOf)
    THEN i + 3 + WsRun(s, i + 3) + Len(LitStartOf)
    ELSE -1

\* start_pattern.search(content): [start, end] of the leftmost match,
\* start = -1 for None
StartPatternSearch(s) ==
    LET hits == {i \in 0..Len(s) : StartPatternAt(s, i) # -1}
    IN  IF hits = {} THEN [start |-> -1, end |-> -1]
        ELSE LET i == MinOf(hits)
             IN  [start |-> i, end |-> LineEnd(s, StartPatternAt(s, i))]

\* re.sub(r'^\s+', '', s, count=1, flags=re.MULTILINE)
SubLeadingSpace(s) ==
    LET hits == {i \in 0..(Len(s) - 1) :
                   IsLineStart(s, i) /\ IsSpace(At(s, i))}
    IN  IF hits = {} THEN s
        ELSE LET i == MinOf(hits)
             IN  Slice(s, 0, i) \o Slice(s, i + WsRun(s, i), Len(s))

\* whether footer_patterns[k] matches at offset i
FooterPatternAt(s, k, i) ==
    /\ IsLineStart(s, i)
    /\ CASE k = 1 ->
              /\ MatchAt(s, i, LitStars)
              /\ MatchIC(s, i + 3 + WsRun(s, i + 3), LitEndOf)
         [] k = 2 ->
              /\ MatchIC(s, i, LitEndOfSp)
              /\ \/ /\ MatchIC(s, i + 7, LitTheSp)
                    /\ MatchIC(s, i + 11, LitPG)
                 \/ MatchIC(s, i + 7, LitPG)
         [] k = 3 ->
              LET j == i + WsRun(s, i)
                  d == j + Len(LitSection)
              IN  /\ MatchIC(s, j, LitSection)
                  /\ DigitRun(s, d) >= 1
                  /\ At(s, d + DigitRun(s, d)) = "."
                  /\ WsRun(s, d + DigitRun(s, d) + 1) >= 1
                  /\ MatchIC(s, d + DigitRun(s, d) + 1
                                  + WsRun(s, d + DigitRun(s, d) + 1), LitInfo)
         [] OTHER -> MatchIC(s, i, LitFoundation)

\* footer_patterns[k].search(s).start(), -1 for None
FooterSearch(s, k) ==
    LET hits == {i \in 0..Len(s) : FooterPatternAt(s, k, i)}
    IN  IF hits = {} THEN -1 ELSE MinOf(hits)

NumFooterPatterns == 4

\* "for pattern in footer_patterns", from the k-th pattern on; footer_start
\* stays None when the loop ends without a break
RECURSIVE FindFooterFrom(_, _)
FindFooterFrom(s, k) ==
    IF k > NumFooterPatterns THEN -1
    ELSE IF FooterSearch(s, k) # -1 THEN FooterSearch(s, k)
         ELSE FindFooterFrom(s, k + 1)

FindFooter(s) == FindFooterFrom(s, 1)

----------------------------------------------------------------------------
(* The documents of the checked instances: up to MaxLines lines of the     *)
(* pool, joined by line breaks, with or without a final line break.        *)

LineAltEnd == LitEndOfSp \o LitPG

LineSection == LitSection \o <<"1", ".", " ">> \o LitInfo

\* s.lower()
LowerStr(s) == [i \in 1..Len(s) |-> Lower(s[i])]

LinePool ==
    { <<>>, <<"x">>,
      StartMarker1, StartMarker2, StartMarker3,
      EndMarker1, EndMarker2, EndMarker3,
      <<"x">> \o EndMarker1,
      LowerStr(StartMarker1),
      LineAltEnd, LineSection, LitFoundation }

RECURSIVE JoinLines(_)
JoinLines(ls) ==
    IF ls = <<>> THEN <<>>
    ELSE IF Len(ls) = 1 THEN ls[1]
         ELSE ls[1] \o <<"\n">> \o JoinLines(Tail(ls))

LineSeqs == UNION {[1..n -> LinePool] : n \in 0..MaxLines}

\* the document of the lines ls, e being its final line break or nothing
Document(ls, e) == JoinLines(ls) \o e

----------------------------------------------------------------------------
(* Initial states.                                                         *)

CleanIdle ==
    /\ start_pos = 0 /\ end_pos = 0 /\ clean = <<>> /\ prev = <<>> /\ passes = 0

HeaderIdle ==
    /\ content = <<>> /\ start_match = -1 /\ footer_start = -1 /\ file = <<"?">>

BatchIdle ==
    /\ book = 0 /\ book_data = 0 /\ downloaded_books = <<>> /\ saved = {}
    /\ attempted = <<>> /\ raised = {}
    /\ txt_dir = {} /\ covers0 = <<>> /\ covers = <<>> /\ txt_files = <<>>
    /\ existing_covers = {} /\ created_count = 0 /\ idx = 0 /\ written = <<>>

MetaIdle ==
    /\ filename = <<>> /\ display_title = <<"?">>
    /\ first_lines = <<>> /\ author = <<"?">>
    /\ BatchIdle

\* clean_text(text) is called, or process_file has read the file into content
InitStrip ==
    /\ \E ls \in LineSeqs, e \in {<<>>, <<"\n">>} : text = Document(ls, e)
    /\ prog \in {"clean_text", "process_file"}
    /\ pc = IF prog = "clean_text" THEN "find_start" ELSE "find_header"
    /\ CleanIdle
    /\ start_match = -1 /\ footer_start = -1 /\ file = <<"?">>
    /\ content = IF prog = "process_file" THEN text ELSE <<>>
    /\ MetaIdle

----------------------------------------------------------------------------
(* clean_text, step by step.                                               *)

\* lines 24-33
CleanFindStart ==
    /\ prog = "clean_text" /\ pc = "find_start"
    /\ start_pos' = FindStart(text)
    /\ pc' = "find_end"
    /\ UNCHANGED <<prog, text, end_pos, clean, prev, passes, varsHeader, varsMeta, varsBatch>>

\* lines 35-41
CleanFindEnd ==
    /\ prog = "clean_text" /\ pc = "find_end"
    /\ end_pos' = FindEnd(text)
    /\ pc' = "extract"
    /\ UNCHANGED <<prog, text, start_pos, clean, prev, passes, varsHeader, varsMeta, varsBatch>>

\* line 44
CleanExtract ==
    /\ prog = "clean_text" /\ pc = "extract"
    /\ clean' = Extract(text, start_pos, end_pos)
    /\ pc' = "whitespace"
    /\ UNCHANGED <<prog, text, start_pos, end_pos, prev, passes, varsHeader, varsMeta, varsBatch>>

\* lines 46-50
CleanUpWhitespace ==
    /\ prog = "clean_text" /\ pc = "whitespace"
    /\ clean' = CleanWhitespace(clean)
    /\ prev' = clean
    /\ passes' = passes + 1
    /\ pc' = "done"
    /\ UNCHANGED <<prog, text, start_pos, end_pos, varsHeader, varsMeta, varsBatch>>

----------------------------------------------------------------------------
(* process_file, step by step.                                             *)

\* lines 40-56
RemoveHeader ==
    /\ prog = "process_file" /\ pc = "find_header"
    /\ LET m == StartPatternSearch(content)
       IN  /\ start_match' = m.end
           /\ content' = IF m.start = -1 THEN content
                         ELSE SubLeadingSpace(Slice(content, m.end, Len(content)))
    /\ pc' = "find_footer"
    /\ UNCHANGED <<prog, footer_start, file, varsClean, varsMeta, varsBatch>>

\* lines 58-64
FindFooterStart ==
    /\ prog = "process_file" /\ pc = "find_footer"
    /\ footer_start' = FindFooter(content)
    /\ pc' = "trim_footer"
    /\ UNCHANGED <<prog, content, start_match, file, varsClean, varsMeta, varsBatch>>

\* lines 66-75
TrimFooterAndWrite ==
    /\ prog = "process_file" /\ pc = "trim_footer"
    /\ content' = IF footer_start # -1
                  THEN Strip(Slice(content, 0, footer_start))
                  ELSE content
    /\ file' = content'
    /\ pc' = "done"
    /\ UNCHANGED <<prog, start_match, footer_start, varsClean, varsMeta, varsBatch>>

----------------------------------------------------------------------------
(* Boundary stripping: the claims.                                         *)

AfterFindStart == prog = "clean_text" /\ pc \in {"find_end", "extract", "whitespace", "done"}

AfterFindEnd == prog = "clean_text" /\ pc \in {"extract", "whitespace", "done"}

AfterFindFooter == prog = "process_file" /\ pc = "trim_footer"

\* C1: once clean_text has computed both offsets,
\* 0 <= start_pos <= end_pos <= len(text).
C1_SliceOffsetsOrdered ==
    AfterFindEnd => 0 <= start_pos /\ start_pos <= end_pos /\ end_pos <= Len(text)

StartOccurs(t) == {k \in 1..Len(start_markers) : Find(t, start_markers[k], 0) # -1}

EndOccurs(t) == {k \in 1..Len(end_markers) : Find(t, end_markers[k], 0) # -1}

FooterOccurs(s) == {k \in 1..NumFooterPatterns : FooterSearch(s, k) # -1}

\* the start boundary that the first occurrence of start_markers[k] gives:
\* the offset after the line break that ends its line
StartBoundaryOf(t, k) ==
    LET nl == Find(t, <<"\n">>, Find(t, start_markers[k], 0))
    IN  IF nl = -1 THEN -1 ELSE nl + 1

\* C2: the boundary comes from the first occurrence of the candidate that is
\* listed first among those present in the searched text, wherever the
\* candidates listed after it occur: for clean_text's start and end markers
\* and for process_file's footer patterns.
C2_ListOrderPriority ==
    /\ AfterFindStart =>
         LET occ == StartOccurs(text)
         IN  occ # {} => start_pos = StartBoundaryOf(text, MinOf(occ))
    /\ AfterFindEnd =>
         LET occ == EndOccurs(text)
         IN  occ # {} => end_pos = Find(text, end_markers[MinOf(occ)], 0)
    /\ AfterFindFooter =>
         LET occ == FooterOccurs(content)
         IN  occ # {} => footer_start = FooterSearch(content, MinOf(occ))

\* C2's case: two end markers are present, the one listed later occurs
\* earlier in the text, and the boundary is the other one's offset.
C2_Witness ==
    /\ AfterFindEnd
    /\ \E a, b \in EndOccurs(text) :
          /\ a < b
          /\ Find(text, end_markers[b], 0) < Find(text, end_markers[a], 0)
          /\ end_pos = Find(text, end_markers[a], 0)

\* the same case for the start markers and for the footer patterns
C2_WitnessStart ==
    /\ AfterFindStart
    /\ \E a, b \in StartOccurs(text) :
          /\ a < b
          /\ Find(text, start_markers[b], 0) < Find(text, start_markers[a], 0)
          /\ start_pos = StartBoundaryOf(text, a)
          /\ start_pos # StartBoundaryOf(text, b)

C2_WitnessFooter ==
    /\ AfterFindFooter
    /\ \E a, b \in FooterOccurs(content) :
          /\ a < b
          /\ FooterSearch(content, b) < FooterSearch(content, a)
          /\ footer_start = FooterSearch(content, a)

\* C3: the footer is the one a search of the original document finds,
\* whether or not a header was found and removed: in process_file (as an
\* offset of the original file) and in clean_text.
C3_FooterFromOriginal ==
    /\ AfterFindFooter =>
         IF FindFooter(text) = -1 THEN footer_start = -1
         ELSE /\ footer_start # -1
              /\ footer_start + (Len(text) - Len(content)) = FindFooter(text)
    /\ AfterFindEnd =>
         \/ end_pos = Len(text) /\ EndOccurs(text) = {}
         \/ \E k \in EndOccurs(text) : end_pos = Find(text, end_markers[k], 0)

NextStrip ==
    \/ CleanFindStart
    \/ CleanFindEnd
    \/ CleanExtract
    \/ CleanUpWhitespace
    \/ RemoveHeader
    \/ FindFooterStart
    \/ TrimFooterAndWrite

SpecStrip == InitStrip /\ [][NextStrip]_vars

----------------------------------------------------------------------------
(* Whitespace clean-up: the instances and the claims.                      *)

WsAlphabet == {"\n", " ", "\t", "\r", "x"}

Strings == UNION {[1..k -> WsAlphabet] : k \in 0..MaxChars}

\* a body alone, a body between a header line and a footer marker, and a
\* body before a start marker that no line break follows
Wrapped(b, w) ==
    CASE w = 1 -> b
      [] w = 2 -> StartMarker1 \o <<"\n">> \o b \o EndMarker1
      [] OTHER -> b \o StartMarker1

InitClean ==
    /\ \E b \in Strings, w \in 1..3 : text = Wrapped(b, w)
    /\ prog = "clean_text"
    /\ pc = "find_start"
    /\ CleanIdle
    /\ HeaderIdle
    /\ MetaIdle

NextClean ==
    \/ CleanFindStart
    \/ CleanFindEnd
    \/ CleanExtract
    \/ CleanUpWhitespace

SpecClean == InitClean /\ [][NextClean]_vars

\* C4: what clean_text returns holds no run of three or more line breaks,
\* no run of two or more spaces and tabs, and no whitespace at either end.
C4_CleanContentNormalized ==
    (prog = "clean_text" /\ pc = "done") =>
       /\ \A i \in 0..(Len(clean) - 1) : NlRun(clean, i) < 3
       /\ \A i \in 0..(Len(clean) - 2) :
            ~(IsHs(At(clean, i)) /\ IsHs(At(clean, i + 1)))
       /\ clean # <<>> => ~IsSpace(clean[1]) /\ ~IsSpace(clean[Len(clean)])

\* C4's case: the slice had whitespace at an end, and a run of blank lines
\* or of spaces inside, and clean_text has returned.
C4_Witness ==
    /\ prog = "clean_text" /\ pc = "done"
    /\ Slice(text, start_pos, end_pos) # prev
    /\ clean # prev
    /\ start_pos > 0 /\ end_pos < Len(text)

\* the same with a run of blank lines, and with a run of spaces
C4_WitnessBlank ==
    /\ prog = "clean_text" /\ pc = "done"
    /\ \E i \in 0..(Len(prev) - 1) : NlRun(prev, i) >= 3

C4_WitnessSpaces ==
    /\ prog = "clean_text" /\ pc = "done"
    /\ \E i \in 0..(Len(prev) - 2) : IsHs(At(prev, i)) /\ IsHs(At(prev, i + 1))

\* lines 46-48 applied to an arbitrary string, and applied again
InitNormalize ==
    /\ text \in Strings
    /\ prog = "normalize"
    /\ pc = "whitespace"
    /\ start_pos = 0 /\ end_pos = 0 /\ prev = <<>> /\ passes = 0
    /\ clean = text
    /\ HeaderIdle
    /\ MetaIdle

MaxPasses == 2

NormalizeOnce ==
    /\ prog = "normalize" /\ pc = "whitespace"
    /\ passes < MaxPasses
    /\ clean' = CleanWhitespace(clean)
    /\ prev' = clean
    /\ passes' = passes + 1
    /\ UNCHANGED <<prog, pc, text, start_pos, end_pos, varsHeader, varsMeta, varsBatch>>

NextNormalize == NormalizeOnce

SpecNormalize == InitNormalize /\ [][NextNormalize]_vars

\* C5: applying the two passes to their own result changes nothing.
C5_NormalizeIdempotent ==
    (prog = "normalize" /\ passes >= 2) => clean = prev

\* C5's case: the first application rewrote both a run of blank lines and a
\* run of spaces, and the second application has been made.
C5_Witness ==
    /\ prog = "normalize" /\ passes = 2
    /\ SubBlankLines(text) # text
    /\ SubSpaces(SubBlankLines(text)) # SubBlankLines(text)

----------------------------------------------------------------------------
(* generate_svg_covers.py: title_to_display_name                           *)

IsUpper(c) == c \in DOMAIN ToLower

IsLower(c) == c \in DOMAIN ToUpper

\* os.path.splitext(p)[0] for a p without a directory part: p up to its
\* last dot, unless only dots precede that dot
SplitextRoot(p) ==
    LET dots == {i \in 0..(Len(p) - 1) : At(p, i) = "."}
    IN  IF dots = {} THEN p
        ELSE LET d == MaxOf(dots)
             IN  IF \E i \in 0..(d - 1) : At(p, i) # "." THEN Slice(p, 0, d)
                 ELSE p

\* s.replace(c, r) for a one-character c: the leftmost occurrence is
\* replaced and the scan resumes after it
RECURSIVE Replace(_, _, _)
Replace(s, c, r) ==
    LET i == Find(s, <<c>>, 0)
    IN  IF i = -1 THEN s
        ELSE Slice(s, 0, i) \o r \o Replace(Slice(s, i + 1, Len(s)), c, r)

\* s.split(), from offset pos on: the maximal runs of non-whitespace
RECURSIVE SplitFrom(_, _)
SplitFrom(s, pos) ==
    LET a == pos + WsRun(s, pos)
    IN  IF a >= Len(s) THEN <<>>
        ELSE LET ends == {e \in (a + 1)..Len(s) : e = Len(s) \/ IsSpace(At(s, e))}
                 e    == MinOf(ends)
             IN  <<Slice(s, a, e)>> \o SplitFrom(s, e)

Split(s) == SplitFrom(s, 0)

\* sep.join(ws)
RECURSIVE Join(_, _)
Join(ws, sep) ==
    IF ws = <<>> THEN <<>>
    ELSE IF Len(ws) = 1 THEN ws[1]
         ELSE ws[1] \o sep \o Join(Tail(ws), sep)

\* word.capitalize()
Capitalize(w) ==
    IF w = <<>> THEN <<>> ELSE <<Upper(w[1])>> \o LowerStr(Tail(w))

minor_words ==
    { <<"a">>, <<"a","n">>, <<"t","h","e">>, <<"a","n","d">>, <<"b","u","t">>,
      <<"o","r">>, <<"f","o","r">>, <<"n","o","r">>, <<"o","f">>, <<"o","n">>,
      <<"i","n">>, <<"t","o">>, <<"w","i","t","h">>, <<"b","y">> }

\* a variant that capitalizes the first word only, not the last
KeepsCaseFirstOnly(words, i) ==
    ~(i = 1 \/ LowerStr(words[i]) \notin minor_words)

\* line 35, negated: whether words[i] is left as it is (i counts from 1)
KeepsCase(words, i) ==
    ~(i = 1 \/ i = Len(words) \/ LowerStr(words[i]) \notin minor_words)

\* lines 24-38
TitleToDisplayName(f) ==
    LET name  == Replace(Replace(SplitextRoot(f), "-", <<" ">>), "2", <<"T","w","o">>)
        words == Split(name)
        cased == [i \in 1..Len(words) |->
                    IF KeepsCase(words, i) THEN words[i] ELSE Capitalize(words[i])]
    IN  Join(cased, <<" ">>)

----------------------------------------------------------------------------
(* generate_svg_covers.py: extract_author                                  *)

NumLeadingLines == 50

\* the text a file opened in text mode yields: \r\n and \r read as \n
\* (a \r becomes \n, and the \n that follows a \r goes)
UniversalNewlines(s) ==
    LET out == [i \in 1..Len(s) |->
                  IF s[i] = "\r" THEN "\n"
                  ELSE IF s[i] = "\n" /\ i > 1 /\ s[i - 1] = "\r" THEN ""
                       ELSE s[i]]
    IN  SelectSeq(out, IsKept)

\* the offset after n calls of readline() made at offset pos
RECURSIVE ReadLines(_, _, _)
ReadLines(s, pos, n) ==
    IF n = 0 THEN pos
    ELSE LET nl == Find(s, <<"\n">>, pos)
         IN  IF nl = -1 THEN Len(s) ELSE ReadLines(s, nl + 1, n - 1)

\* line 44
FirstLines(s) == Slice(s, 0, ReadLines(s, 0, NumLeadingLines))

IsNameChar(c) == IsUpper(c) \/ IsLower(c) \/ c = "." \/ IsSpace(c)

\* the length of the longest run of the class that starts at offset i
NameRun(s, i) ==
    IF i < 0 \/ i >= Len(s) THEN 0
    ELSE (CHOOSE j \in i..Len(s) :
             /\ ~IsNameChar(At(s, j))
             /\ \A k \in i..(j - 1) : IsNameChar(At(s, k))) - i

\* ([A-Z][a-zA-Z\.\s]+)(?:\r|\n) at offset j: the end of the group, -1 when
\* it does not match.  The class takes line breaks too; the engine settles
\* on the longest run of the class that a \r or \n follows.
NameGroupEnd(s, j) ==
    IF ~IsUpper(At(s, j)) THEN -1
    ELSE LET N == {n \in 1..NameRun(s, j + 1) : At(s, j + 1 + n) \in {"\r", "\n"}}
         IN  IF N = {} THEN -1 ELSE j + 1 + MaxOf(N)

\* \s+([A-Z][a-zA-Z\.\s]+)(?:\r|\n) at offset p: [start, end] of the group,
\* start = -1 when it does not match
SpaceThenName(s, p) ==
    LET W == {w \in 1..WsRun(s, p) : NameGroupEnd(s, p + w) # -1}
    IN  IF W = {} THEN [start |-> -1, end |-> -1]
        ELSE [start |-> p + MaxOf(W), end |-> NameGroupEnd(s, p + MaxOf(W))]

LitBy == <<"b","y">>

LitWritten == <<"w","r","i","t","t","e","n">>

LitTranslated == <<"t","r","a","n","s","l","a","t","e","d">>

LitAuthorCap == <<"A","u","t","h","o","r">>

LitWrittenCap == <<"W","r","i","t","t","e","n">>

LitTranslatedCap == <<"T","r","a","n","s","l","a","t","e","d">>

UnknownAuthor == <<"U","n","k","n","o","w","n"," ","A","u","t","h","o","r">>

\* patterns[k] at offset i: the group of the match, start = -1 when it does
\* not match there
AuthorPatternAt(s, k, i) ==
    CASE k = 1 ->
           IF MatchAt(s, i, LitBy) THEN SpaceThenName(s, i + 2)
           ELSE [start |-> -1, end |-> -1]
      [] k = 2 ->
           LET L == IF MatchAt(s, i, LitWritten) THEN Len(LitWritten)
                    ELSE IF MatchAt(s, i, LitTranslated) THEN Len(LitTranslated)
                    ELSE -1
               b == i + L + WsRun(s, i + L)
           IN  IF L # -1 /\ WsRun(s, i + L) >= 1 /\ MatchAt(s, b, LitBy)
               THEN SpaceThenName(s, b + 2)
               ELSE [start |-> -1, end |-> -1]
      [] OTHER ->
           LET L == IF MatchAt(s, i, LitAuthorCap) THEN Len(LitAuthorCap)
                    ELSE IF MatchAt(s, i, LitWrittenCap) THEN Len(LitWrittenCap)
                    ELSE IF MatchAt(s, i, LitTranslatedCap) THEN Len(LitTranslatedCap)
                    ELSE -1
           IN  IF L # -1 /\ At(s, i + L) = ":"
               THEN SpaceThenName(s, i + L + 1)
               ELSE [start |-> -1, end |-> -1]

\* re.search(patterns[k], s): the group of the leftmost match
AuthorSearch(s, k) ==
    LET hits == {i \in 0..(Len(s) - 1) : AuthorPatternAt(s, k, i).start # -1}
    IN  IF hits = {} THEN [start |-> -1, end |-> -1]
        ELSE AuthorPatternAt(s, k, MinOf(hits))

NumAuthorPatterns == 3

\* "for pattern in patterns", from the k-th pattern on
RECURSIVE ExtractAuthorFrom(_, _)
ExtractAuthorFrom(s, k) ==
    IF k > NumAuthorPatterns THEN UnknownAuthor
    ELSE LET m == AuthorSearch(s, k)
         IN  IF m.start # -1 THEN Strip(Slice(s, m.start, m.end))
             ELSE ExtractAuthorFrom(s, k + 1)

\* lines 46-58
ExtractAuthor(s) == ExtractAuthorFrom(s, 1)

----------------------------------------------------------------------------
(* Title and author: the instances, the steps and the claims.              *)

StemAlphabet == {"a", "o", "f", "-", "2", "."}

Stems == UNION {[1..k -> StemAlphabet] : k \in 0..MaxStem}

ExtTxt == <<".","t","x","t">>

TaleOfTwoCitiesTxt ==
    <<"t","a","l","e","-","o","f","-","2","-","c","i","t","i","e","s",".","t","x","t">>

TaleOfTwoCities ==
    <<"T","a","l","e"," ","o","f"," ","T","w","o"," ","C","i","t","i","e","s">>

TheGreatGatsbyId ==
    <<"t","h","e","-","g","r","e","a","t","-","g","a","t","s","b","y">>

TheGreatGatsby ==
    <<"T","h","e"," ","G","r","e","a","t"," ","G","a","t","s","b","y">>

\* a text file's name: glob("*.txt") yields no empty name
InitTitle ==
    /\ \/ \E st \in Stems, e \in {<<>>, ExtTxt} : filename = st \o e /\ filename # <<>>
       \/ filename \in {TaleOfTwoCitiesTxt, TheGreatGatsbyId}
    /\ prog = "title_to_display_name"
    /\ pc = "call"
    /\ display_title = <<"?">>
    /\ first_lines = <<>> /\ author = <<"?">>
    /\ text = <<>>
    /\ CleanIdle
    /\ HeaderIdle
    /\ BatchIdle

\* lines 21-38
TitleCall ==
    /\ prog = "title_to_display_name" /\ pc = "call"
    /\ display_title' = TitleToDisplayName(filename)
    /\ pc' = "done"
    /\ UNCHANGED <<prog, filename, first_lines, author, varsClean, varsHeader, varsBatch>>

NextTitle == TitleCall

SpecTitle == InitTitle /\ [][NextTitle]_vars

TitleDone == prog = "title_to_display_name" /\ pc = "done"

\* C6: the derived title is never empty: when the transformation yields an
\* empty string, the result is the identifier itself.
C6_TitleNonEmpty ==
    TitleDone =>
       /\ display_title # <<>>
       /\ Split(Replace(SplitextRoot(filename), "-", <<" ">>)) = <<>>
            => display_title = filename

\* the identifier without its .txt
StemOf(f) ==
    IF Len(f) >= 4 /\ MatchAt(f, Len(f) - 4, ExtTxt) THEN Slice(f, 0, Len(f) - 4)
    ELSE f

\* the non-empty pieces between the hyphens of s, from offset pos on
RECURSIVE PiecesFrom(_, _)
PiecesFrom(s, pos) ==
    IF pos >= Len(s) THEN <<>>
    ELSE IF At(s, pos) = "-" THEN PiecesFrom(s, pos + 1)
         ELSE LET h == Find(s, <<"-">>, pos)
                  e == IF h = -1 THEN Len(s) ELSE h
              IN  <<Slice(s, pos, e)>> \o PiecesFrom(s, e)

\* an identifier of hyphen-separated words of lowercase letters and 2s
IsLowercaseIdentifier(f) ==
    /\ StemOf(f) # <<>>
    /\ \A i \in 0..(Len(StemOf(f)) - 1) :
         IsLower(At(StemOf(f), i)) \/ At(StemOf(f), i) \in {"-", "2"}

\* the words of the title t: the pieces between its single spaces
RECURSIVE TitleWordsFrom(_, _)
TitleWordsFrom(t, pos) ==
    LET sp == Find(t, <<" ">>, pos)
    IN  IF sp = -1 THEN <<Slice(t, pos, Len(t))>>
        ELSE <<Slice(t, pos, sp)>> \o TitleWordsFrom(t, sp + 1)

\* C8: for an identifier of hyphen-separated lowercase words, the title has
\* one word for each word of the identifier; the first word, the last word
\* and every word outside the minor-word set start with a capital, and a
\* minor word between them is left as it is; tale-of-2-cities.txt gives
\* Tale of Two Cities.
C8_TitleCase ==
    (TitleDone /\ IsLowercaseIdentifier(filename)) =>
       LET pieces == PiecesFrom(StemOf(filename), 0)
           out    == IF display_title = <<>> THEN <<>>
                     ELSE TitleWordsFrom(display_title, 0)
       IN  /\ Len(out) = Len(pieces)
           /\ \A i \in 1..Len(pieces) :
                 IF i = 1 \/ i = Len(pieces) \/ pieces[i] \notin minor_words
                 THEN out[i] # <<>> /\ IsUpper(out[i][1])
                 ELSE out[i] = pieces[i]
           /\ filename = TaleOfTwoCitiesTxt => display_title = TaleOfTwoCities
           /\ filename = TheGreatGatsbyId => display_title = TheGreatGatsby

\* C8's case: an identifier of three or more words whose first, last and a
\* middle word are minor words.
C8_Witness ==
    /\ TitleDone /\ IsLowercaseIdentifier(filename)
    /\ LET pieces == PiecesFrom(StemOf(filename), 0)
       IN  /\ Len(pieces) >= 3
           /\ pieces[1] \in minor_words
           /\ pieces[Len(pieces)] \in minor_words
           /\ \E i \in 2..(Len(pieces) - 1) : pieces[i] \in minor_words

\* the example of the claim
C8_WitnessExample == TitleDone /\ filename = TaleOfTwoCitiesTxt

LineByJane == <<"b","y"," ","J","a","n","e"," ","A","u","s","t","e","n">>

LinePride == <<"P","r","i","d","e"," ","a","n","d"," ","P","r","e","j","u","d","i","c","e">>

LineChapter == <<"C","h","a","p","t","e","r"," ","1">>

LineAuthorColon ==
    <<"A","u","t","h","o","r",":"," ","J","a","n","e"," ","A","u","s","t","e","n">>

LineWrittenBy ==
    <<"w","r","i","t","t","e","n"," ","b","y"," ","J","a","n","e"," ","A","u","s","t","e","n">>

LineByLower == <<"b","y"," ","j","a","n","e"," ","a","u","s","t","e","n">>

LeadingLinePool ==
    { <<>>, LineByJane, LinePride, LineChapter, LineAuthorColon, LineWrittenBy,
      LineByLower, LineByJane \o <<"\r">> }

LeadingLineSeqs == UNION {[1..n -> LeadingLinePool] : n \in 0..MaxLeadingLines}

\* extract_author(file_path) is called; text is what the file holds
InitAuthor ==
    /\ \E ls \in LeadingLineSeqs, e \in {<<>>, <<"\n">>} : text = Document(ls, e)
    /\ prog = "extract_author"
    /\ pc = "read"
    /\ MetaIdle
    /\ CleanIdle
    /\ HeaderIdle

\* lines 42-44
AuthorReadFirstLines ==
    /\ prog = "extract_author" /\ pc = "read"
    /\ first_lines' = FirstLines(UniversalNewlines(text))
    /\ pc' = "match"
    /\ UNCHANGED <<prog, filename, display_title, author, varsClean, varsHeader, varsBatch>>

\* lines 46-58
AuthorMatchPatterns ==
    /\ prog = "extract_author" /\ pc = "match"
    /\ author' = ExtractAuthor(first_lines)
    /\ pc' = "done"
    /\ UNCHANGED <<prog, filename, display_title, first_lines, varsClean, varsHeader, varsBatch>>

NextAuthor ==
    \/ AuthorReadFirstLines
    \/ AuthorMatchPatterns

SpecAuthor == InitAuthor /\ [][NextAuthor]_vars

\* whether the line l is "by NAME", NAME a capitalized word sequence
IsByLine(l) ==
    /\ Len(l) >= 4
    /\ MatchAt(l, 0, <<"b","y"," ">>)
    /\ IsUpper(At(l, 3))
    /\ \A i \in 3..(Len(l) - 1) : IsUpper(At(l, i)) \/ IsLower(At(l, i)) \/ At(l, i) = " "

\* C7: when the leading content begins with a line "by NAME" that a line
\* break ends, the author is NAME trimmed, whatever the lines after it hold.
C7_AuthorIsNameOnLine ==
    (prog = "extract_author" /\ pc = "done") =>
       LET nl == Find(first_lines, <<"\n">>, 0)
           l  == Slice(first_lines, 0, nl)
       IN  (nl # -1 /\ IsByLine(l)) => author = Strip(Slice(l, 3, Len(l)))

----------------------------------------------------------------------------
(* download_new_books.py: download_book and main.  A book is its place in  *)
(* books_to_download; 0 stands for None.                                   *)

NumBooks == 5

\* main calls download_book for the first book of the list
InitDownload ==
    /\ prog = "download_main"
    /\ pc = "for"
    /\ book = 1 /\ book_data = 0 /\ downloaded_books = <<>> /\ saved = {}
    /\ attempted = <<>> /\ raised = {}
    /\ txt_dir = {} /\ covers0 = <<>> /\ covers = <<>> /\ txt_files = <<>>
    /\ existing_covers = {} /\ created_count = 0 /\ idx = 0 /\ written = <<>>
    /\ text = <<>>
    /\ CleanIdle
    /\ HeaderIdle
    /\ filename = <<>> /\ display_title = <<"?">>
    /\ first_lines = <<>> /\ author = <<"?">>

\* lines 124-125: the next book_info, and the call of download_book
MainNextBook ==
    /\ prog = "download_main" /\ pc = "for"
    /\ book <= NumBooks
    /\ attempted' = Append(attempted, book)
    /\ pc' = "get"
    /\ UNCHANGED <<prog, book, book_data, downloaded_books, saved, raised,
                   varsCovers, varsClean, varsHeader, varsMeta>>

\* lines 57-58 without an exception
DownloadGet ==
    /\ prog = "download_main" /\ pc = "get"
    /\ pc' = "clean"
    /\ UNCHANGED <<prog, varsBooks, varsCovers, varsClean, varsHeader, varsMeta>>

\* line 61 without an exception
DownloadClean ==
    /\ prog = "download_main" /\ pc = "clean"
    /\ pc' = "write"
    /\ UNCHANGED <<prog, varsBooks, varsCovers, varsClean, varsHeader, varsMeta>>

\* lines 64-77 without an exception: the file is written, the record returned
DownloadWrite ==
    /\ prog = "download_main" /\ pc = "write"
    /\ saved' = saved \cup {book}
    /\ book_data' = book
    /\ pc' = "collect"
    /\ UNCHANGED <<prog, book, downloaded_books, attempted, raised,
                   varsCovers, varsClean, varsHeader, varsMeta>>

\* lines 79-81: an exception of line 57, 58, 61, 65 or 66 is caught and None
\* returned; one of line 66 leaves the file opened for writing
DownloadRaises ==
    /\ prog = "download_main" /\ pc \in {"get", "clean", "write"}
    /\ \/ saved' = saved
       \/ pc = "write" /\ saved' = saved \cup {book}
    /\ raised' = raised \cup {book}
    /\ book_data' = 0
    /\ pc' = "collect"
    /\ UNCHANGED <<prog, book, downloaded_books, attempted,
                   varsCovers, varsClean, varsHeader, varsMeta>>

\* a variant that appends whatever download_book returned
MainCollectAlways ==
    /\ prog = "download_main" /\ pc = "collect"
    /\ downloaded_books' = Append(downloaded_books, book_data)
    /\ book' = book + 1
    /\ pc' = "for"
    /\ UNCHANGED <<prog, book_data, saved, attempted, raised,
                   varsCovers, varsClean, varsHeader, varsMeta>>

\* lines 126-127
MainCollect ==
    /\ prog = "download_main" /\ pc = "collect"
    /\ downloaded_books' = IF book_data # 0 THEN Append(downloaded_books, book_data)
                           ELSE downloaded_books
    /\ book' = book + 1
    /\ pc' = "for"
    /\ UNCHANGED <<prog, book_data, saved, attempted, raised,
                   varsCovers, varsClean, varsHeader, varsMeta>>

\* line 129: the list is exhausted
MainReport ==
    /\ prog = "download_main" /\ pc = "for"
    /\ book > NumBooks
    /\ pc' = "done"
    /\ UNCHANGED <<prog, varsBooks, varsCovers, varsClean, varsHeader, varsMeta>>

NextDownload ==
    \/ MainNextBook
    \/ DownloadGet
    \/ DownloadClean
    \/ DownloadWrite
    \/ DownloadRaises
    \/ MainCollect
    \/ MainReport

SpecDownload == InitDownload /\ [][NextDownload]_vars

\* the books 1..n that did not raise, in list order
RECURSIVE Succeeded(_)
Succeeded(n) ==
    IF n = 0 THEN <<>>
    ELSE IF n \in raised THEN Succeeded(n - 1) ELSE Append(Succeeded(n - 1), n)

\* C9: the books are attempted in list order, whatever failed before; a
\* book whose download raised yields None and is not recorded;
\* downloaded_books holds the books that succeeded, in list order; and the
\* loop ends only when every book has been attempted.
C9_FailureNeverAborts ==
    prog = "download_main" =>
       /\ attempted = [k \in 1..Len(attempted) |-> k]
       /\ Len(attempted) = IF pc \in {"for", "done"} THEN book - 1 ELSE book
       /\ (pc = "collect" /\ book \in raised) => book_data = 0
       /\ (pc = "collect" /\ book \notin raised) => book_data = book
       /\ downloaded_books = Succeeded(book - 1)
       /\ pc = "done" =>
            /\ Len(attempted) = NumBooks
            /\ downloaded_books = Succeeded(NumBooks)

\* C9's case: main has ended, a download raised, and a later one succeeded.
C9_Witness ==
    /\ prog = "download_main" /\ pc = "done"
    /\ \E a \in raised : \E k \in 1..Len(downloaded_books) : downloaded_books[k] > a

----------------------------------------------------------------------------
(* generate_svg_covers.py: main.  A file is its name in its directory.     *)

ExtSvg == <<".","s","v","g">>

TxtNames ==
    { <<"a">> \o ExtTxt, <<"b">> \o ExtTxt, <<"a",".","b">> \o ExtTxt }

CoverNames ==
    { <<"a">> \o ExtSvg, <<"b">> \o ExtSvg, <<"a",".","b">> \o ExtSvg,
      <<"c">> \o ExtSvg }

\* the orders in which glob may list the files S
Listings(S) ==
    {l \in [1..Cardinality(S) -> S] : \A i, j \in 1..Cardinality(S) : l[i] = l[j] => i = j}

\* lines 118 and 108: os.path.splitext(os.path.basename(f))[0]
BaseName(f) == SplitextRoot(f)

\* line 126, within covers_dir
SvgPath(base_name) == base_name \o ExtSvg

\* a variant that finds no cover
HasCoverNever(base_name, existing) == FALSE

\* line 121
HasCover(base_name, existing) == base_name \in existing

\* main is called: the two directories hold what they hold
InitCovers ==
    /\ prog = "covers_main"
    /\ pc = "glob"
    /\ txt_dir \in SUBSET TxtNames
    /\ \E S \in SUBSET CoverNames : covers0 = [n \in S |-> "old"]
    /\ covers = covers0
    /\ txt_files = <<>> /\ existing_covers = {} /\ created_count = 0
    /\ idx = 0 /\ written = <<>>
    /\ book = 0 /\ book_data = 0 /\ downloaded_books = <<>> /\ saved = {}
    /\ attempted = <<>> /\ raised = {}
    /\ text = <<>>
    /\ CleanIdle
    /\ HeaderIdle
    /\ filename = <<>> /\ display_title = <<"?">>
    /\ first_lines = <<>> /\ author = <<"?">>

\* lines 101-114; existing_covers is searched only, so it is a set here
CoversGlob ==
    /\ prog = "covers_main" /\ pc = "glob"
    /\ txt_files' \in Listings(txt_dir)
    /\ existing_covers' = {BaseName(f) : f \in DOMAIN covers}
    /\ created_count' = 0
    /\ idx' = 1
    /\ pc' = "for"
    /\ UNCHANGED <<prog, txt_dir, covers0, covers, written,
                   varsBooks, varsClean, varsHeader, varsMeta>>

\* lines 117-123
CoversSkip ==
    /\ prog = "covers_main" /\ pc = "for"
    /\ idx <= Len(txt_files)
    /\ HasCover(BaseName(txt_files[idx]), existing_covers)
    /\ idx' = idx + 1
    /\ UNCHANGED <<prog, pc, txt_dir, covers0, covers, txt_files, existing_covers,
                   created_count, written, varsBooks, varsClean, varsHeader, varsMeta>>

\* lines 117-128, create_svg_cover writing the file (line 95)
CoversCreate ==
    /\ prog = "covers_main" /\ pc = "for"
    /\ idx <= Len(txt_files)
    /\ ~HasCover(BaseName(txt_files[idx]), existing_covers)
    /\ LET svg_path == SvgPath(BaseName(txt_files[idx]))
       IN  covers' = [n \in DOMAIN covers \cup {svg_path} |->
                        IF n = svg_path THEN "new" ELSE covers[n]]
    /\ written' = Append(written, txt_files[idx])
    /\ created_count' = created_count + 1
    /\ idx' = idx + 1
    /\ UNCHANGED <<prog, pc, txt_dir, covers0, txt_files, existing_covers,
                   varsBooks, varsClean, varsHeader, varsMeta>>

\* lines 117-127, create_svg_cover raising before it writes (the open of
\* line 42 or of line 95): nothing catches it, and main ends
CoversCreateRaises ==
    /\ prog = "covers_main" /\ pc = "for"
    /\ idx <= Len(txt_files)
    /\ ~HasCover(BaseName(txt_files[idx]), existing_covers)
    /\ pc' = "raised"
    /\ UNCHANGED <<prog, varsCovers, varsBooks, varsClean, varsHeader, varsMeta>>

\* line 130
CoversReport ==
    /\ prog = "covers_main" /\ pc = "for"
    /\ idx > Len(txt_files)
    /\ pc' = "done"
    /\ UNCHANGED <<prog, varsCovers, varsBooks, varsClean, varsHeader, varsMeta>>

NextCovers ==
    \/ CoversGlob
    \/ CoversSkip
    \/ CoversCreate
    \/ CoversCreateRaises
    \/ CoversReport

SpecCovers == InitCovers /\ [][NextCovers]_vars

\* the text files whose base name had no cover at the start
Uncovered == {f \in txt_dir : SvgPath(BaseName(f)) \notin DOMAIN covers0}

\* C10: every cover of the start is still there with its content; a cover
\* is written only for a text file whose base name had no cover at the
\* start, and at most once for each; created_count is the number of covers
\* written; and when main has gone through the list, every such text file
\* has had its cover written.
C10_NeverOverwrites ==
    prog = "covers_main" =>
       /\ \A n \in DOMAIN covers0 : n \in DOMAIN covers /\ covers[n] = "old"
       /\ \A k \in 1..Len(written) : written[k] \in Uncovered
       /\ \A j, k \in 1..Len(written) : written[j] = written[k] => j = k
       /\ DOMAIN covers = DOMAIN covers0 \cup {SvgPath(BaseName(written[k])) : k \in 1..Len(written)}
       /\ \A k \in 1..Len(written) : covers[SvgPath(BaseName(written[k]))] = "new"
       /\ created_count = Len(written)
       /\ pc = "done" => {written[k] : k \in 1..Len(written)} = Uncovered

\* C10's case: main has gone through a list that holds a text file with a
\* cover and two without.
C10_Witness ==
    /\ prog = "covers_main" /\ pc = "done"
    /\ created_count = 2
    /\ \E f \in txt_dir : f \notin Uncovered

=============================================================================
